---------------------------- MODULE Spec2Model ----------------------------
(***************************************************************************)
(* Model of the Bewerbungsassistent: src/api.py (the Flask endpoints) and  *)
(* src/app.py (the Streamlit form).                                        *)
(*                                                                         *)
(* A Python str is a sequence of one-character strings, so that len,       *)
(* lower, strip, split, "in" and the regular expression of is_valid_input  *)
(* are computed character by character as Python computes them.            *)
(***************************************************************************)
EXTENDS Integers, Sequences, FiniteSets, TLC

VARIABLES
    doc,          \* extract_keywords: the tokens nlp(text) yields
    keywords,     \* extract_keywords: the returned list
    kw_pc,        \* extract_keywords: "call" | "return"
    text,         \* is_valid_input: the argument
    valid,        \* is_valid_input: the returned boolean
    val_pc,       \* is_valid_input: "call" | "return"
    letter,       \* save_cover_letter: the argument
    document,     \* save_cover_letter: the blocks of the saved document
    exp_pc,       \* save_cover_letter: "call" | "return"
    entry,        \* request: "api" (src/api.py) | "form" (src/app.py)
    request,      \* request: the uploaded files and the form fields
    response,     \* request: what the handler answered
    calls,        \* request: how often the handler used each collaborator
    req_pc,       \* request: "received" | "answered"
    cover_letter, \* /generate_docx: each request's JSON field
    pc,           \* /generate_docx: each request's position in the handler
    file,         \* /generate_docx: Motivationsschreiben.docx on disk
    download,     \* /generate_docx: what each request's client received
    log           \* /generate_docx: the steps taken so far, in order

kwVars  == <<doc, keywords, kw_pc>>
valVars == <<text, valid, val_pc>>
expVars == <<letter, document, exp_pc>>
reqVars == <<entry, request, response, calls, req_pc>>
docxVars == <<cover_letter, pc, file, download, log>>
vars == <<kwVars, valVars, expVars, reqVars, docxVars>>

\* Python's None where a str may stand: told apart from every str, whose
\* elements are single characters
None == <<"None">>

\* request.files.get(...) without such a file, st.file_uploader without an upload
NoFile == [uploaded |-> FALSE]

---------------------------------------------------------------------------
(* Python's built-ins on str and list, as the code uses them.              *)

UpperCase ==
  <<"A", "B", "C", "D", "E", "F", "G", "H", "I", "J", "K", "L", "M", "N",
    "O", "P", "Q", "R", "S", "T", "U", "V", "W", "X", "Y", "Z", "Ä", "Ö", "Ü">>

LowerCase ==
  <<"a", "b", "c", "d", "e", "f", "g", "h", "i", "j", "k", "l", "m", "n",
    "o", "p", "q", "r", "s", "t", "u", "v", "w", "x", "y", "z", "ä", "ö", "ü">>

\* str.lower(), one character
LowerChar(c) ==
  IF \E i \in DOMAIN UpperCase : UpperCase[i] = c
    THEN LowerCase[CHOOSE i \in DOMAIN UpperCase : UpperCase[i] = c]
    ELSE c

\* str.lower()
lower(s) == [i \in DOMAIN s |-> LowerChar(s[i])]

\* x in list
Contains(list, x) == \E i \in DOMAIN list : list[i] = x

\* list[:k], k of either sign
SliceTo(list, k) ==
  LET n == IF k >= 0
             THEN (IF k < Len(list) THEN k ELSE Len(list))
             ELSE (IF Len(list) + k > 0 THEN Len(list) + k ELSE 0)
  IN  SubSeq(list, 1, n)

---------------------------------------------------------------------------
(* Keyword extraction: extract_keywords, identical in api.py and app.py.   *)

blacklisted_terms ==
  << <<"d", "a", "t", "e", "n">>,
     <<"p", "e", "r", "s", "ö", "n", "l", "i", "c", "h", "e">>,
     <<"n", "a", "c", "h", "n", "a", "m", "e">>,
     <<"g", "e", "b", "u", "r", "t", "s", "o", "r", "t">>,
     <<"g", "e", "b", "u", "r", "t", "s", "t", "a", "g">>,
     <<"a", "d", "r", "e", "s", "s", "e">>,
     <<"t", "e", "l", "e", "f", "o", "n">>,
     <<"e", "m", "a", "i", "l">>,
     <<"e", "-", "m", "a", "i", "l">>,
     <<"s", "t", "r", "a", "ß", "e">>,
     <<"p", "o", "s", "t", "l", "e", "i", "t", "z", "a", "h", "l">> >>

priority_terms ==
  << <<"v", "e", "r", "m", "ö", "g", "e", "n", "s", "b", "e", "r", "a", "t", "u", "n", "g">>,
     <<"k", "u", "n", "d", "e", "n", "b", "e", "r", "a", "t", "u", "n", "g">>,
     <<"f", "i", "n", "a", "n", "z", "w", "e", "s", "e", "n">>,
     <<"b", "a", "n", "k", "k", "a", "u", "f", "f", "r", "a", "u">>,
     <<"b", "a", "n", "k", "k", "a", "u", "f", "m", "a", "n", "n">>,
     <<"k", "u", "n", "d", "e", "n", "m", "a", "n", "a", "g", "e", "m", "e", "n", "t">>,
     <<"f", "i", "n", "a", "n", "z", "p", "r", "o", "d", "u", "k", "t", "e">> >>

\* the 5 of "5 - len(prioritized)"
MaxKeywords == 5

\* the 3 of "len(token.text) > 3"
MinTokenLen == 3

\* the condition of the list comprehension that builds `keywords`
IsCandidate(token) ==
  /\ token.pos_ \in {"NOUN", "ADJ", "VERB"}
  /\ Len(token.text) > MinTokenLen
  /\ ~token.is_stop
  /\ ~Contains(blacklisted_terms, lower(token.text))

\* keywords = [token.text.lower() for token in doc if ...]
RECURSIVE CandidateKeywords(_)
CandidateKeywords(tokens) ==
  IF tokens = <<>> THEN <<>>
  ELSE (IF IsCandidate(Head(tokens)) THEN <<lower(Head(tokens).text)>> ELSE <<>>)
         \o CandidateKeywords(Tail(tokens))

\* Counter(keywords): the keys in the order of their first occurrence
\* (a Counter is a dict, which keeps insertion order) ...
RECURSIVE CounterKeys(_)
CounterKeys(kws) ==
  IF kws = <<>> THEN <<>>
  ELSE LET init == CounterKeys(SubSeq(kws, 1, Len(kws) - 1))
           last == kws[Len(kws)]
       IN  IF Contains(init, last) THEN init ELSE Append(init, last)

\* ... and the count of each key
CounterCount(kws, word) == Cardinality({i \in DOMAIN kws : kws[i] = word})

\* a sort by count that puts a key in front of the keys counted as often (a
\* mutant of SortedByCount: the order of first occurrence is lost among ties)
RECURSIVE SortedByCountUnstable(_, _)
SortedByCountUnstable(keys, kws) ==
  IF keys = <<>> THEN <<>>
  ELSE LET init == SortedByCountUnstable(SubSeq(keys, 1, Len(keys) - 1), kws)
           last == keys[Len(keys)]
           front == Cardinality({i \in DOMAIN init :
                        CounterCount(kws, init[i]) > CounterCount(kws, last)})
       IN  SubSeq(init, 1, front) \o <<last>> \o SubSeq(init, front + 1, Len(init))

\* sorted(items, key=count, reverse=True): a stable sort, so that equal counts
\* keep the order of the keys; computed by insertion from the left.
RECURSIVE SortedByCount(_, _)
SortedByCount(keys, kws) ==
  IF keys = <<>> THEN <<>>
  ELSE LET init == SortedByCount(SubSeq(keys, 1, Len(keys) - 1), kws)
           last == keys[Len(keys)]
           \* the elements that stay in front of `last`: those counted at least as often
           front == Cardinality({i \in DOMAIN init :
                        CounterCount(kws, init[i]) >= CounterCount(kws, last)})
       IN  SubSeq(init, 1, front) \o <<last>> \o SubSeq(init, front + 1, Len(init))

\* Counter.most_common(n) with n given: heapq.nlargest(n, items, key=count),
\* which is sorted(items, key=count, reverse=True)[:n] for n >= 0 and [] for n < 0.
most_common(kws, n) ==
  IF n <= 0 THEN <<>>
  ELSE SliceTo(SortedByCount(CounterKeys(kws), kws), n)

\* prioritized = [word for word in priority_terms if word in keywords]
RECURSIVE PrioritizedFrom(_, _)
PrioritizedFrom(terms, kws) ==
  IF terms = <<>> THEN <<>>
  ELSE (IF Contains(kws, Head(terms)) THEN <<Head(terms)>> ELSE <<>>)
         \o PrioritizedFrom(Tail(terms), kws)

Prioritized(kws) == PrioritizedFrom(priority_terms, kws)

\* extract_keywords, given the tokens of nlp(text)
extract_keywords(tokens) ==
  LET kws            == CandidateKeywords(tokens)
      prioritized    == Prioritized(kws)
      other_keywords == most_common(kws, MaxKeywords - Len(prioritized))
  IN  prioritized \o SliceTo(other_keywords, MaxKeywords - Len(prioritized))

---------------------------------------------------------------------------
(* Input validation: is_valid_input, identical in api.py and app.py.       *)

\* the character class [a-zA-ZäöüÄÖÜß]
AlphaClass ==
  {LowerCase[i] : i \in DOMAIN LowerCase} \cup {UpperCase[i] : i \in DOMAIN UpperCase}
    \cup {"ß"}

\* the 10 of "len(text) >= 10"
MinInputLen == 10

\* the 3 of "{3,}"
MinAlphaRun == 3

\* the greedy match of [..]{3,} that starts at position i: how many characters
\* of the class follow one another from there
RECURSIVE MatchLength(_, _)
MatchLength(s, i) ==
  IF i > Len(s) \/ s[i] \notin AlphaClass THEN 0 ELSE 1 + MatchLength(s, i + 1)

\* re.search(r'[a-zA-ZäöüÄÖÜß]{3,}', s): the match is tried at each position
\* from the left until one succeeds
RECURSIVE SearchFrom(_, _)
SearchFrom(s, i) ==
  IF i > Len(s) THEN FALSE
  ELSE IF MatchLength(s, i) >= MinAlphaRun THEN TRUE
  ELSE SearchFrom(s, i + 1)

\* is_valid_input with > for >= (a mutant)
is_valid_input_longer(s) == Len(s) > MinInputLen /\ SearchFrom(s, 1)

is_valid_input(s) == Len(s) >= MinInputLen /\ SearchFrom(s, 1)

---------------------------------------------------------------------------
(* str.find, "in", str.strip and str.split.                                *)

\* s.find(sub, i): the least position >= i at which sub occurs in s, 0 if none
RECURSIVE Find(_, _, _)
Find(s, sub, i) ==
  IF i + Len(sub) - 1 > Len(s) THEN 0
  ELSE IF SubSeq(s, i, i + Len(sub) - 1) = sub THEN i
  ELSE Find(s, sub, i + 1)

\* sub in s
In(sub, s) == Find(s, sub, 1) # 0

\* the characters str.strip() removes (the ones a char sequence here can hold)
Whitespace == {" ", "\t", "\n", "\r", "\f"}

RECURSIVE lstrip(_)
lstrip(s) ==
  IF s # <<>> /\ Head(s) \in Whitespace THEN lstrip(Tail(s)) ELSE s

RECURSIVE rstrip(_)
rstrip(s) ==
  IF s # <<>> /\ s[Len(s)] \in Whitespace THEN rstrip(SubSeq(s, 1, Len(s) - 1)) ELSE s

\* str.lstrip() in the place of str.strip() (a mutant)
strip_leading(s) == lstrip(s)

\* str.strip()
strip(s) == rstrip(lstrip(s))

\* s.split(sep): the separator is looked for from the left, each occurrence
\* found ends a chunk and the search goes on behind it
RECURSIVE split(_, _)
split(s, sep) ==
  LET at == Find(s, sep, 1)
  IN  IF at = 0 THEN <<s>>
      ELSE <<SubSeq(s, 1, at - 1)>> \o split(SubSeq(s, at + Len(sep), Len(s)), sep)

---------------------------------------------------------------------------
(* Document export: save_cover_letter (app.py) and the body of             *)
(* generate_docx (api.py).                                                 *)

Heading == <<"M", "o", "t", "i", "v", "a", "t", "i", "o", "n", "s", "s", "c", "h", "r", "e", "i", "b", "e", "n">>

DoubleNewline == <<"\n", "\n">>

\* for paragraph in text.split("\n\n"): doc.add_paragraph(paragraph.strip())
RECURSIVE AddParagraphs(_, _)
AddParagraphs(blocks, chunks) ==
  IF chunks = <<>> THEN blocks
  ELSE AddParagraphs(Append(blocks, [style |-> "Normal", text |-> strip(Head(chunks))]),
                     Tail(chunks))

\* the blocks of the document that save_cover_letter(text) writes
save_cover_letter(t) ==
  AddParagraphs(<<[style |-> "Heading 1", text |-> Heading]>>, split(t, DoubleNewline))

---------------------------------------------------------------------------
(* The request handlers: api_generate_cover_letter (api.py) and the button *)
(* handler of the form (app.py), with the functions they call.             *)
(*                                                                         *)
(* An uploaded file is [uploaded, mimetype, extraction]: its declared      *)
(* media type and what the library reading it yields, which is either      *)
(* [raises |-> TRUE, message] or [raises |-> FALSE, text], the text being  *)
(* the concatenated pages or paragraphs.                                   *)
(* A reply of the generation service is [raises |-> TRUE, message] or      *)
(* [raises |-> FALSE, content], content None for a choice without text.    *)
(* `calls` lists what a handler handed to its collaborators: the replies   *)
(* of the generation service it called, the texts it extracted keywords    *)
(* from, the letters it exported. The prompt (and with it the tone) only   *)
(* reaches the generation service, whose reply is any of Replies.          *)
(* Texts that the code inspects are character sequences; the messages it   *)
(* only emits are plain strings.                                           *)

PDF  == "application/pdf"
DOCX == "application/vnd.openxmlformats-officedocument.wordprocessingml.document"

Fehler == <<"F", "e", "h", "l", "e", "r">>

\* bool(x) of a str or None
Truthy(x) == x # None /\ x # <<>>

\* extract_text_from_pdf without its check for text (a mutant of the api.py one)
extract_text_from_pdf_unchecked(f) ==
  IF f.extraction.raises
    THEN <<"F", "e", "h", "l", "e", "r", " ", "b", "e", "i", "m", " ", "L", "e", "s", "e", "n", " ", "d", "e", "r", " ", "P", "D", "F", ":", " ">> \o f.extraction.message
  ELSE f.extraction.text

\* api.py extract_text_from_pdf
api_extract_text_from_pdf(f) ==
  IF f.extraction.raises
    THEN <<"F", "e", "h", "l", "e", "r", " ", "b", "e", "i", "m", " ", "L", "e", "s", "e", "n", " ", "d", "e", "r", " ", "P", "D", "F", ":", " ">> \o f.extraction.message
  ELSE IF strip(f.extraction.text) = <<>>
    THEN <<"F", "e", "h", "l", "e", "r", ":", " ", "K", "e", "i", "n", " ", "e", "x", "t", "r", "a", "h", "i", "e", "r", "b", "a", "r", "e", "r", " ", "T", "e", "x", "t", " ", "i", "n", " ", "d", "e", "r", " ", "P", "D", "F", "-", "D", "a", "t", "e", "i", ".">>
  ELSE f.extraction.text

\* api.py extract_text_from_docx
api_extract_text_from_docx(f) ==
  IF f.extraction.raises
    THEN <<"F", "e", "h", "l", "e", "r", " ", "b", "e", "i", "m", " ", "L", "e", "s", "e", "n", " ", "d", "e", "r", " ", "D", "O", "C", "X", ":", " ">> \o f.extraction.message
  ELSE IF strip(f.extraction.text) = <<>>
    THEN <<"F", "e", "h", "l", "e", "r", ":", " ", "K", "e", "i", "n", " ", "e", "x", "t", "r", "a", "h", "i", "e", "r", "b", "a", "r", "e", "r", " ", "T", "e", "x", "t", " ", "i", "n", " ", "d", "e", "r", " ", "D", "O", "C", "X", "-", "D", "a", "t", "e", "i", ".">>
  ELSE f.extraction.text

\* app.py extract_text_from_pdf
app_extract_text_from_pdf(f) ==
  IF f.extraction.raises
    THEN <<"F", "e", "h", "l", "e", "r", " ", "b", "e", "i", "m", " ", "L", "e", "s", "e", "n", " ", "d", "e", "r", " ", "P", "D", "F", ":", " ">> \o f.extraction.message
  ELSE f.extraction.text

\* app.py extract_text_from_docx
app_extract_text_from_docx(f) ==
  IF f.extraction.raises
    THEN <<"F", "e", "h", "l", "e", "r", " ", "b", "e", "i", "m", " ", "L", "e", "s", "e", "n", " ", "d", "e", "r", " ", "D", "O", "C", "X", ":", " ">> \o f.extraction.message
  ELSE f.extraction.text

\* the try block around client.chat.completions.create, in both files:
\* response.choices[0].message.content.strip(), or the message of what was raised
\* (None has no strip, which raises inside the try block as well)
Completion(reply) ==
  IF reply.raises
    THEN <<"F", "e", "h", "l", "e", "r", " ", "b", "e", "i", " ", "d", "e", "r", " ", "A", "P", "I", "-", "A", "n", "f", "r", "a", "g", "e", ":", " ">> \o reply.message
  ELSE IF reply.content = None
    THEN <<"F", "e", "h", "l", "e", "r", " ", "b", "e", "i", " ", "d", "e", "r", " ", "A", "P", "I", "-", "A", "n", "f", "r", "a", "g", "e", ":", " ">> \o <<"'", "N", "o", "n", "e", "T", "y", "p", "e", "'", " ", "o", "b", "j", "e", "c", "t", " ", "h", "a", "s", " ", "n", "o", " ", "a", "t", "t", "r", "i", "b", "u", "t", "e", " ", "'", "s", "t", "r", "i", "p", "'">>
  ELSE strip(reply.content)

NoCalls == [gen |-> <<>>, kw |-> <<>>, export |-> <<>>]

\* api.py generate_cover_letter: the text it returns, and the calls it makes
\* (extract_keywords on both texts, then the generation service)
api_generate_cover_letter(cv_text, job_text, strengths, weaknesses, name, company, reply) ==
  IF ~(Truthy(cv_text) /\ Truthy(job_text) /\ Truthy(strengths) /\ Truthy(weaknesses)
         /\ Truthy(name) /\ Truthy(company))
    THEN [text |-> <<"F", "e", "h", "l", "e", "r", ":", " ", "A", "l", "l", "e", " ", "F", "e", "l", "d", "e", "r", " ", "m", "ü", "s", "s", "e", "n", " ", "a", "u", "s", "g", "e", "f", "ü", "l", "l", "t", " ", "s", "e", "i", "n", ".">>, calls |-> NoCalls]
  ELSE IF ~is_valid_input(strengths) \/ ~is_valid_input(weaknesses)
    THEN [text |-> <<"F", "e", "h", "l", "e", "r", ":", " ", "S", "t", "ä", "r", "k", "e", "n", " ", "u", "n", "d", " ", "S", "c", "h", "w", "ä", "c", "h", "e", "n", " ", "m", "ü", "s", "s", "e", "n", " ", "s", "i", "n", "n", "v", "o", "l", "l", "e", " ", "E", "i", "n", "g", "a", "b", "e", "n", " ", "s", "e", "i", "n", ".">>, calls |-> NoCalls]
  ELSE [text  |-> Completion(reply),
        calls |-> [gen |-> <<reply>>, kw |-> <<cv_text, job_text>>, export |-> <<>>]]

\* app.py generate_cover_letter
app_generate_cover_letter(cv_text, job_text, reply) ==
  [text  |-> Completion(reply),
   calls |-> [gen |-> <<reply>>, kw |-> <<cv_text, job_text>>, export |-> <<>>]]

Answer(status, body, made) == [response |-> [status |-> status, body |-> body], calls |-> made]

\* api.py api_generate_cover_letter, from the validation of the files on
ApiAnswer(req, reply) ==
  IF ~req.cv_file.uploaded
    THEN Answer(400, [error |-> "Bitte laden Sie einen Lebenslauf hoch."], NoCalls)
  ELSE IF ~req.job_file.uploaded
    THEN Answer(400, [error |-> "Bitte laden Sie ein Stellenprofil hoch."], NoCalls)
  ELSE IF req.cv_file.mimetype \notin {PDF, DOCX}
    THEN Answer(400, [error |-> "Ungültiges Lebenslauf-Format", mimetype |-> req.cv_file.mimetype],
                NoCalls)
  ELSE IF req.job_file.mimetype # PDF
    THEN Answer(400, [error |-> "Ungültiges Stellenprofil-Format", mimetype |-> req.job_file.mimetype],
                NoCalls)
  ELSE
    LET cv_text  == IF req.cv_file.mimetype = PDF
                      THEN api_extract_text_from_pdf(req.cv_file)
                      ELSE api_extract_text_from_docx(req.cv_file)
        job_text == api_extract_text_from_pdf(req.job_file)
    IN  IF In(Fehler, cv_text)
          THEN Answer(400, [error |-> "Fehler beim Verarbeiten des Lebenslaufs", text |-> cv_text],
                      NoCalls)
        ELSE IF In(Fehler, job_text)
          THEN Answer(400, [error |-> "Fehler beim Verarbeiten des Stellenprofils", text |-> job_text],
                      NoCalls)
        ELSE IF ~(Truthy(req.name) /\ Truthy(req.company) /\ Truthy(req.strengths)
                    /\ Truthy(req.weaknesses))
          THEN Answer(400, [error |-> "Alle Textfelder müssen ausgefüllt sein."], NoCalls)
        ELSE IF ~is_valid_input(req.strengths) \/ ~is_valid_input(req.weaknesses)
          THEN Answer(400, [error |-> "Stärken und Schwächen müssen sinnvolle Eingaben sein."],
                      NoCalls)
        ELSE
          LET made == api_generate_cover_letter(cv_text, job_text, req.strengths,
                        req.weaknesses, req.name, req.company, reply)
          IN  IF In(Fehler, made.text)
                THEN Answer(500, [error |-> made.text], made.calls)
              ELSE Answer(200, [cover_letter |-> made.text],
                          [made.calls EXCEPT !.kw = @ \o <<cv_text, job_text>>])

\* what the form shows: the st.error messages, the letter written, the document
\* offered for download
Shown(errors, written, offered, made) ==
  [response |-> [errors |-> errors, cover_letter |-> written, document |-> offered],
   calls |-> made]

\* app.py, the body of `if st.button("Motivationsschreiben generieren")`
FormAnswer(req, reply) ==
  IF ~is_valid_input(req.strengths) \/ ~is_valid_input(req.weaknesses)
    THEN Shown(<<"Bitte geben Sie sinnvolle Stärken und Schwächen ein">>, None, None, NoCalls)
  ELSE IF ~Truthy(req.name) \/ ~Truthy(req.company)
    THEN Shown(<<"Bitte geben Sie Ihren Namen und den Unternehmensnamen ein.">>, None, None, NoCalls)
  ELSE IF ~req.cv_file.uploaded
    THEN Shown(<<"Bitte laden Sie einen Lebenslauf hoch.">>, None, None, NoCalls)
  ELSE IF ~req.job_file.uploaded
    THEN Shown(<<"Bitte laden Sie ein Stellenprofil hoch.">>, None, None, NoCalls)
  ELSE
    LET cv_text  == IF req.cv_file.mimetype = PDF THEN app_extract_text_from_pdf(req.cv_file)
                    ELSE IF req.cv_file.mimetype = DOCX THEN app_extract_text_from_docx(req.cv_file)
                    ELSE <<>>
        job_text == app_extract_text_from_pdf(req.job_file)
        failed   == In(Fehler, cv_text) \/ In(Fehler, job_text)
        shown_kw == IF Truthy(cv_text) /\ Truthy(job_text) /\ ~failed
                      THEN <<cv_text, job_text>> ELSE <<>>
    IN  IF ~(Truthy(cv_text) /\ Truthy(job_text))
          THEN Shown(<<"Bitte füllen Sie alle Felder aus.">>, None, None, NoCalls)
        ELSE IF failed
          THEN Shown(<<"Fehler beim Verarbeiten der hochgeladenen Dateien.">>, None, None, NoCalls)
        ELSE
          LET made == app_generate_cover_letter(cv_text, job_text, reply)
          IN  Shown(<<>>, made.text, save_cover_letter(made.text),
                    [made.calls EXCEPT !.kw = shown_kw \o @, !.export = <<made.text>>])

---------------------------------------------------------------------------
(* The components at rest: a specification of one component holds the      *)
(* variables of the others at these values.                                *)

KwIdle   == doc = <<>> /\ keywords = <<>> /\ kw_pc = "idle"
ValIdle  == text = <<>> /\ valid = FALSE /\ val_pc = "idle"
ExpIdle  == letter = <<>> /\ document = <<>> /\ exp_pc = "idle"
ReqIdle  == entry = "idle" /\ request = None /\ response = None /\ calls = None
              /\ req_pc = "idle"
DocxIdle == cover_letter = <<>> /\ pc = <<>> /\ file = None /\ download = <<>>
              /\ log = <<>>

---------------------------------------------------------------------------
(* SpecKeywords: extract_keywords applied to the tokens of a text.         *)

\* the longest token sequence drawn freely from TaggerTokens
MaxTokens == 3

\* a token of the spaCy pipeline: its text, its part of speech, its stop flag
Token(t, pos, stop) == [text |-> t, pos_ |-> pos, is_stop |-> stop]

\* tokens the tagger can yield: every priority term, a capitalised priority
\* term, plain nouns and verbs, a blacklisted noun, a noun of three letters,
\* a stop word and an adverb
TaggerTokens ==
  {Token(priority_terms[i], "NOUN", FALSE) : i \in DOMAIN priority_terms}
    \cup { Token(<<"F", "i", "n", "a", "n", "z", "w", "e", "s", "e", "n">>, "NOUN", FALSE),
           Token(<<"k", "u", "n", "d", "e", "n">>, "NOUN", FALSE),
           Token(<<"b", "e", "r", "a", "t", "e", "n">>, "VERB", FALSE),
           Token(<<"D", "a", "t", "e", "n">>, "NOUN", FALSE),
           Token(<<"r", "a", "t">>, "NOUN", FALSE),
           Token(<<"h", "a", "b", "e", "n">>, "VERB", TRUE),
           Token(<<"s", "c", "h", "n", "e", "l", "l">>, "ADV", FALSE) }

\* the priority terms at the indices S, last index first
RECURSIVE PriorityTokens(_)
PriorityTokens(S) ==
  IF S = {} THEN <<>>
  ELSE LET m == CHOOSE i \in S : \A j \in S : j <= i
       IN  <<Token(priority_terms[m], "NOUN", FALSE)>> \o PriorityTokens(S \ {m})

\* texts that name several priority terms, with or without a plain noun in front
PriorityDocs ==
  {front \o PriorityTokens(S) :
     S \in SUBSET DOMAIN priority_terms,
     front \in {<<>>, <<Token(<<"k", "u", "n", "d", "e", "n">>, "NOUN", FALSE)>>}}

Docs ==
  UNION {[1..n -> TaggerTokens] : n \in 0..MaxTokens} \cup PriorityDocs

InitKeywords ==
  /\ doc \in Docs /\ keywords = <<>> /\ kw_pc = "call"
  /\ ValIdle /\ ExpIdle /\ ReqIdle /\ DocxIdle

ExtractKeywords ==
  /\ kw_pc = "call"
  /\ keywords' = extract_keywords(doc)
  /\ kw_pc' = "return"
  /\ UNCHANGED <<doc, valVars, expVars, reqVars, docxVars>>

NextKeywords == ExtractKeywords

SpecKeywords == InitKeywords /\ [][NextKeywords]_vars

---------------------------------------------------------------------------
(* SpecValidator: is_valid_input applied to a text.                        *)

\* the longest text drawn freely from SampleChars
MaxTextLen == 10

\* an ASCII letter, an umlaut and a digit
SampleChars == {"k", "ä", "7"}

SampleTexts ==
  { <<>>,
    <<"1", "2", "3", "4", "5", "6", "7", "8", "9", "0">>,
    <<"T", "e", "a", "m", "f", "ä", "h", "i", "g", "k", "e", "i", "t">>,
    <<"1", "2", " ", "c", "a", "f", "é", " ", "3", "4", "5">>,
    <<"1", "2", "3", "4", "5", "6", " ", "ß", "A", "Z">> }

Texts == UNION {[1..n -> SampleChars] : n \in 0..MaxTextLen} \cup SampleTexts

InitValidator ==
  /\ text \in Texts /\ valid = FALSE /\ val_pc = "call"
  /\ KwIdle /\ ExpIdle /\ ReqIdle /\ DocxIdle

ValidateInput ==
  /\ val_pc = "call"
  /\ valid' = is_valid_input(text)
  /\ val_pc' = "return"
  /\ UNCHANGED <<text, kwVars, expVars, reqVars, docxVars>>

NextValidator == ValidateInput

SpecValidator == InitValidator /\ [][NextValidator]_vars

---------------------------------------------------------------------------
(* SpecExport: save_cover_letter applied to a letter.                      *)

\* the longest letter drawn freely from LetterChars
MaxLetterLen == 6

\* a letter, a blank and a line break
LetterChars == {"a", " ", "\n"}

Letters == UNION {[1..n -> LetterChars] : n \in 0..MaxLetterLen}

InitExport ==
  /\ letter \in Letters /\ document = <<>> /\ exp_pc = "call"
  /\ KwIdle /\ ValIdle /\ ReqIdle /\ DocxIdle

SaveCoverLetter ==
  /\ exp_pc = "call"
  /\ document' = save_cover_letter(letter)
  /\ exp_pc' = "return"
  /\ UNCHANGED <<letter, kwVars, valVars, reqVars, docxVars>>

NextExport == SaveCoverLetter

SpecExport == InitExport /\ [][NextExport]_vars

---------------------------------------------------------------------------
(* SpecRequest: one request to POST /generate_cover_letter, or one press   *)
(* of the form's button.                                                   *)

Mimetypes == {PDF, DOCX, "text/plain"}

\* what reading a file can yield: an error, no text, blank text, a text, and a
\* text in which the word "Fehlerkultur" occurs
Extractions ==
  { [raises |-> TRUE, message |-> <<"E", "O", "F">>],
    [raises |-> FALSE, text |-> <<>>],
    [raises |-> FALSE, text |-> <<" ", "\n">>],
    [raises |-> FALSE, text |-> <<"B", "a", "n", "k", "k", "a", "u", "f", "f", "r", "a", "u">>],
    [raises |-> FALSE, text |-> <<"F", "e", "h", "l", "e", "r", "k", "u", "l", "t", "u", "r">>] }

Files ==
  {NoFile} \cup
  {[uploaded |-> TRUE, mimetype |-> m, extraction |-> x] : m \in Mimetypes, x \in Extractions}

\* what the generation service can answer: an error, a choice without text, a
\* letter with whitespace around it, and a letter in which "Fehlern" occurs
Replies ==
  { [raises |-> TRUE, message |-> <<"q", "u", "o", "t", "a">>],
    [raises |-> FALSE, content |-> None],
    [raises |-> FALSE, content |-> <<" ", "S", "e", "h", "r", "\n", "\n", "G", "r", "u", "ß", " ", "\n">>],
    [raises |-> FALSE, content |-> <<"A", "u", "s", " ", "F", "e", "h", "l", "e", "r", "n", " ", "l", "e", "r", "n", "e", "n">>] }

Requests ==
  [ cv_file    : Files,
    job_file   : Files,
    name       : {None, <<>>, <<"M", "a", "x">>},
    company    : {<<>>, <<"B", "a", "n", "k", "k", "a", "u", "f", "f", "r", "a", "u">>},
    strengths  : {None, <<>>, <<"T", "e", "a", "m", "f", "ä", "h", "i", "g", "k", "e", "i", "t">>, <<"1", "2", "3", "4", "5", "6", "7", "8", "9", "0">>},
    weaknesses : {<<"P", "e", "r", "f", "e", "k", "t", "i", "o", "n", "i", "s", "m", "u", "s">>, <<"T", "e", "a", "m">>},
    tone       : {None, <<"K", "r", "e", "a", "t", "i", "v">>} ]

\* request.form.get yields None for a field the client left out; the widgets of
\* the form always yield a str
FormFilled(req) ==
  /\ req.name # None /\ req.company # None
  /\ req.strengths # None /\ req.weaknesses # None /\ req.tone # None

InitRequest ==
  /\ entry \in {"api", "form"}
  /\ request \in Requests
  /\ entry = "form" => FormFilled(request)
  /\ response = None /\ calls = NoCalls /\ req_pc = "received"
  /\ KwIdle /\ ValIdle /\ ExpIdle /\ DocxIdle

\* api.py api_generate_cover_letter
ApiGenerateCoverLetter ==
  /\ req_pc = "received" /\ entry = "api"
  /\ \E reply \in Replies :
       LET answer == ApiAnswer(request, reply)
       IN  response' = answer.response /\ calls' = answer.calls
  /\ req_pc' = "answered"
  /\ UNCHANGED <<entry, request, kwVars, valVars, expVars, docxVars>>

\* app.py, the button "Motivationsschreiben generieren"
FormGenerate ==
  /\ req_pc = "received" /\ entry = "form"
  /\ \E reply \in Replies :
       LET answer == FormAnswer(request, reply)
       IN  response' = answer.response /\ calls' = answer.calls
  /\ req_pc' = "answered"
  /\ UNCHANGED <<entry, request, kwVars, valVars, expVars, docxVars>>

NextRequest == ApiGenerateCoverLetter \/ FormGenerate

SpecRequest == InitRequest /\ [][NextRequest]_vars

---------------------------------------------------------------------------
(* SpecDocx: POST /generate_docx (api.py generate_docx), several requests  *)
(* at a time: the server handles each request on a thread of its own, and  *)
(* all of them write and send the one file "Motivationsschreiben.docx".    *)
(*                                                                         *)
(* doc.save(filename) opens the file, which empties it, writes the         *)
(* document and closes it; send_file(filename) reads what the file holds   *)
(* by then. A file that is open for writing, or that two writers wrote at  *)
(* a time, holds no document ("partial"); of two writers at a time the     *)
(* one to close last may also have overwritten the other's bytes in full.  *)

\* the number of requests in flight
NumRequests == 2

DocxRequests == 1..NumRequests

\* the cover_letter field of the JSON body: missing, or one of two letters
DocxLetters == {None, <<"S", "e", "h", "r", "\n", "\n", "G", "r", "u", "ß">>, <<"H", "a", "l", "l", "o">>}

\* a document on disk, and a file that is no document
Complete(blocks) == [state |-> "complete", blocks |-> blocks]
Partial == [state |-> "partial"]
Absent == [state |-> "absent"]

\* doc = Document(); doc.add_heading(...); for paragraph in ...: doc.add_paragraph(...)
generate_docx_document(t) ==
  AddParagraphs(<<[style |-> "Heading 1", text |-> Heading]>>, split(t, DoubleNewline))

InitDocx ==
  /\ cover_letter \in [DocxRequests -> DocxLetters]
  /\ pc = [r \in DocxRequests |-> "start"]
  /\ file = [content |-> Absent, torn |-> {}]
  /\ download = [r \in DocxRequests |-> None]
  /\ log = <<>>
  /\ KwIdle /\ ValIdle /\ ExpIdle /\ ReqIdle

\* if not cover_letter: return jsonify({"error": ...}), 400
Reject(r) ==
  /\ pc[r] = "start" /\ ~Truthy(cover_letter[r])
  /\ download' = [download EXCEPT ![r] = [status |-> 400, error |-> "Kein Motivationsschreiben angegeben."]]
  /\ pc' = [pc EXCEPT ![r] = "done"]
  /\ log' = Append(log, <<r, "reject">>)
  /\ UNCHANGED <<cover_letter, file>>

\* doc.save(filename), the file opened for writing: it is emptied; writers that
\* have it open by then write at the same time as this one
SaveOpen(r) ==
  /\ pc[r] = "start" /\ Truthy(cover_letter[r])
  /\ LET writing == {q \in DocxRequests : pc[q] = "saving"}
     IN  file' = [content |-> Partial,
                  torn    |-> IF writing = {} THEN file.torn
                              ELSE file.torn \cup writing \cup {r}]
  /\ pc' = [pc EXCEPT ![r] = "saving"]
  /\ log' = Append(log, <<r, "open">>)
  /\ UNCHANGED <<cover_letter, download>>

\* doc.save that closes the file before the document is written (a mutant of
\* SaveClose)
SaveCloseUnwritten(r) ==
  /\ pc[r] = "saving"
  /\ file' = [content |-> Partial, torn |-> file.torn \ {r}]
  /\ pc' = [pc EXCEPT ![r] = "saved"]
  /\ log' = Append(log, <<r, "close">>)
  /\ UNCHANGED <<cover_letter, download>>

\* doc.save(filename), the document written and the file closed
SaveClose(r) ==
  /\ pc[r] = "saving"
  /\ \E content \in {Complete(generate_docx_document(cover_letter[r])), Partial} :
       /\ content = Partial => r \in file.torn
       /\ file' = [content |-> content, torn |-> file.torn \ {r}]
  /\ pc' = [pc EXCEPT ![r] = "saved"]
  /\ log' = Append(log, <<r, "close">>)
  /\ UNCHANGED <<cover_letter, download>>

\* return send_file(filename, as_attachment=True)
SendFile(r) ==
  /\ pc[r] = "saved"
  /\ download' = [download EXCEPT ![r] = [status |-> 200, content |-> file.content]]
  /\ pc' = [pc EXCEPT ![r] = "done"]
  /\ log' = Append(log, <<r, "send">>)
  /\ UNCHANGED <<cover_letter, file>>

NextDocx ==
  \E r \in DocxRequests :
    /\ Reject(r) \/ SaveOpen(r) \/ SaveClose(r) \/ SendFile(r)
    /\ UNCHANGED <<kwVars, valVars, expVars, reqVars>>

SpecDocx == InitDocx /\ [][NextDocx]_vars

---------------------------------------------------------------------------
(* Properties of extract_keywords, under SpecKeywords.                     *)

\* what the claims say of a candidate multiset `cand` (the filtered, lowercased
\* tokens of the text at hand, CandidateKeywords(doc))
TermSet(list) == {list[i] : i \in DOMAIN list}
\* p: the number of priority terms present in the candidate multiset
PresentPriority(cand) == Cardinality(TermSet(priority_terms) \cap TermSet(cand))
Occurrences(cand, word) == Cardinality({i \in DOMAIN cand : cand[i] = word})
FirstOccurrence(cand, word) ==
  CHOOSE i \in DOMAIN cand : cand[i] = word /\ \A j \in 1..(i - 1) : cand[j] # word
\* a ranks before b: more frequent, or as frequent and first seen earlier
RanksBefore(cand, a, b) ==
  \/ Occurrences(cand, a) > Occurrences(cand, b)
  \/ /\ Occurrences(cand, a) = Occurrences(cand, b)
     /\ FirstOccurrence(cand, a) < FirstOccurrence(cand, b)
\* the part of a result behind its first p entries
FrequencyFill(result, p) == SubSeq(result, p + 1, Len(result))

\* C1: extract_keywords returns at most 5 entries, whatever the tokens are
\* (six or all seven priority terms included).
C1_AtMostFive == kw_pc = "return" => Len(keywords) <= 5

\* C2: no term occurs at two different positions of the result of
\* extract_keywords.
C2_NoDuplicates ==
  kw_pc = "return" =>
    \A i, j \in DOMAIN keywords : i # j => keywords[i] # keywords[j]

\* C3: the priority terms present in the candidate set come first, in the order
\* of priority_terms, and no position holding a priority term follows a position
\* holding a term chosen by frequency.
C3_PriorityFirst ==
  kw_pc = "return" =>
    LET cand    == CandidateKeywords(doc)
        p       == PresentPriority(cand)
        present == TermSet(priority_terms) \cap TermSet(cand)
    IN  /\ p <= Len(keywords)
        /\ \A i \in 1..p :
             /\ keywords[i] \in present
             /\ \A j \in 1..(i - 1) :
                  \E a, b \in DOMAIN priority_terms :
                    a < b /\ priority_terms[a] = keywords[j] /\ priority_terms[b] = keywords[i]
        /\ \A i, j \in DOMAIN keywords :
             p < i /\ i < j => keywords[j] \notin TermSet(priority_terms)

\* C10: behind the first p entries the result holds exactly the top (5 - p)
\* distinct candidate terms by descending frequency, ties resolved by first
\* appearance (all distinct candidates when fewer exist); no token, empty list.
C10_FrequencyFill ==
  kw_pc = "return" =>
    LET cand     == CandidateKeywords(doc)
        distinct == TermSet(cand)
        p        == PresentPriority(cand)
        fill     == FrequencyFill(keywords, p)
        slots    == IF 5 - p > 0 THEN 5 - p ELSE 0
    IN  /\ p <= Len(keywords)
        /\ Len(fill) = IF Cardinality(distinct) < slots THEN Cardinality(distinct) ELSE slots
        /\ \A i \in DOMAIN fill : fill[i] \in distinct
        /\ \A i, j \in DOMAIN fill : i < j => RanksBefore(cand, fill[i], fill[j])
        /\ \A w \in distinct :
             (\A i \in DOMAIN fill : fill[i] # w) =>
               \A i \in DOMAIN fill : RanksBefore(cand, fill[i], w)
        /\ (doc = <<>> => keywords = <<>>)

\* C10's case: a term seen later but more often is ranked before one seen earlier
C10_Witness ==
  /\ kw_pc = "return"
  /\ LET cand == CandidateKeywords(doc)
         fill == FrequencyFill(keywords, PresentPriority(cand))
     IN  /\ Len(fill) >= 2
         /\ Occurrences(cand, fill[1]) > Occurrences(cand, fill[2])
         /\ FirstOccurrence(cand, fill[1]) > FirstOccurrence(cand, fill[2])

---------------------------------------------------------------------------
(* Properties of is_valid_input, under SpecValidator.                      *)

Letters3(s, i) ==
  \A k \in i..(i + 2) :
    s[k] \in { "a", "b", "c", "d", "e", "f", "g", "h", "i", "j", "k", "l", "m",
               "n", "o", "p", "q", "r", "s", "t", "u", "v", "w", "x", "y", "z",
               "A", "B", "C", "D", "E", "F", "G", "H", "I", "J", "K", "L", "M",
               "N", "O", "P", "Q", "R", "S", "T", "U", "V", "W", "X", "Y", "Z",
               "ä", "ö", "ü", "Ä", "Ö", "Ü", "ß" }

C7_Result ==
  val_pc = "return" =>
    /\ valid = (Len(text) >= 10 /\ \E i \in 1..(Len(text) - 2) : Letters3(text, i))
    /\ (text = <<>> => ~valid)
    /\ (text = <<"1", "2", "3", "4", "5", "6", "7", "8", "9", "0">> => ~valid)
    /\ (text = <<"T", "e", "a", "m", "f", "ä", "h", "i", "g", "k", "e", "i", "t">> => valid)

\* C7: is_valid_input(text) is true iff text has at least 10 characters and
\* holds 3 consecutive characters of a-z, A-Z, ä, ö, ü, Ä, Ö, Ü, ß; "" and
\* "1234567890" are invalid, "Teamfähigkeit" is valid; the call changes nothing
\* but its own result.
C7_ValidIff ==
  /\ []C7_Result
  /\ [][val_pc = "call" /\ val_pc' = "return" =>
          UNCHANGED <<text, kwVars, expVars, reqVars, docxVars>>]_vars

\* C7's case: a text of exactly 10 characters whose only run of letters is its
\* last 3 characters, found valid
C7_Witness ==
  /\ val_pc = "return" /\ valid
  /\ Len(text) = 10
  /\ \A i \in 1..8 : Letters3(text, i) <=> i = 8

---------------------------------------------------------------------------
(* Properties of save_cover_letter, under SpecExport.                      *)

\* how many line breaks end right before position i of the letter
BreaksBefore(i) ==
  Cardinality({k \in 1..(i - 1) : \A m \in k..(i - 1) : letter[m] = "\n"})

\* where the double newlines that end a chunk start: a pair of line breaks that
\* an even number of line breaks precedes (of three in a row the first two split)
Separators ==
  {i \in 1..(Len(letter) - 1) :
     letter[i] = "\n" /\ letter[i + 1] = "\n" /\ BreaksBefore(i) % 2 = 0}

\* the k-th chunk: from behind the separator before it to the separator after it
ChunkStart(k) ==
  IF k = 1 THEN 1
  ELSE 2 + CHOOSE i \in Separators : Cardinality({j \in Separators : j < i}) = k - 2
ChunkEnd(k) ==
  IF k = Cardinality(Separators) + 1 THEN Len(letter)
  ELSE (CHOOSE i \in Separators : Cardinality({j \in Separators : j < i}) = k - 1) - 1

\* the part from..to of s without its leading and trailing whitespace
Trimmed(s, from, to) ==
  LET inked == {i \in from..to : s[i] \notin {" ", "\t", "\n", "\r", "\f"}}
  IN  IF inked = {} THEN <<>>
      ELSE SubSeq(s, CHOOSE i \in inked : \A j \in inked : i <= j,
                     CHOOSE i \in inked : \A j \in inked : j <= i)

\* C8: the export emits the level-1 heading "Motivationsschreiben" and then one
\* paragraph per chunk of the letter split on double newlines, in order, each
\* the trimmed chunk; one blank line between two paragraphs gives two blocks.
C8_Export ==
  exp_pc = "return" =>
    /\ Len(document) = Cardinality(Separators) + 2
    /\ document[1] = [style |-> "Heading 1", text |-> <<"M", "o", "t", "i", "v", "a", "t", "i", "o", "n", "s", "s", "c", "h", "r", "e", "i", "b", "e", "n">>]
    /\ \A k \in 1..(Cardinality(Separators) + 1) :
         document[k + 1] = [style |-> "Normal", text |-> Trimmed(letter, ChunkStart(k), ChunkEnd(k))]
    /\ (Cardinality({i \in 1..(Len(letter) - 1) : letter[i] = "\n" /\ letter[i + 1] = "\n"}) = 1
          => Len(document) = 3)

\* C8's case: two padded paragraphs with one blank line between them
C8_Witness ==
  /\ exp_pc = "return"
  /\ letter = <<" ", "a", "\n", "\n", "a", " ">>
  /\ document = << [style |-> "Heading 1", text |-> <<"M", "o", "t", "i", "v", "a", "t", "i", "o", "n", "s", "s", "c", "h", "r", "e", "i", "b", "e", "n">>],
                   [style |-> "Normal", text |-> <<"a">>],
                   [style |-> "Normal", text |-> <<"a">>] >>

---------------------------------------------------------------------------
(* Properties of the request handlers, under SpecRequest.                  *)

\* the text is empty or holds whitespace only
Blank(t) == \A i \in DOMAIN t : t[i] \in {" ", "\t", "\n", "\r", "\f"}

\* reading the file raised, or found no text
ExtractionFails(f) == f.uploaded /\ (f.extraction.raises \/ Blank(f.extraction.text))

\* one of the input checks of POST /generate_cover_letter does not pass
InputCheckFails(req) ==
  \/ ~req.cv_file.uploaded
  \/ ~req.job_file.uploaded
  \/ req.cv_file.uploaded /\ req.cv_file.mimetype \notin {PDF, DOCX}
  \/ req.job_file.uploaded /\ req.job_file.mimetype # PDF
  \/ ExtractionFails(req.cv_file)
  \/ ExtractionFails(req.job_file)
  \/ \E field \in {req.name, req.company, req.strengths, req.weaknesses} :
       field = None \/ field = <<>>
  \/ ~is_valid_input(req.strengths)
  \/ ~is_valid_input(req.weaknesses)

\* C4: in POST /generate_cover_letter, a missing file, an unsupported media type,
\* a failed or empty extraction, an empty field or invalid strengths or
\* weaknesses gives 400, and the generation service is not invoked.
C4_ChecksBeforeGeneration ==
  req_pc = "answered" /\ entry = "api" /\ InputCheckFails(request) =>
    response.status = 400 /\ calls.gen = <<>>

\* C4's case: a résumé PDF without extractable text, everything else in order
C4_Witness ==
  /\ req_pc = "answered" /\ entry = "api"
  /\ request.cv_file = [uploaded |-> TRUE, mimetype |-> PDF,
                        extraction |-> [raises |-> FALSE, text |-> <<" ", "\n">>]]
  /\ request.job_file = [uploaded |-> TRUE, mimetype |-> PDF,
                         extraction |-> [raises |-> FALSE, text |-> <<"B", "a", "n", "k", "k", "a", "u", "f", "f", "r", "a", "u">>]]
  /\ request.name = <<"M", "a", "x">> /\ request.company = <<"B", "a", "n", "k", "k", "a", "u", "f", "f", "r", "a", "u">>
  /\ request.strengths = <<"T", "e", "a", "m", "f", "ä", "h", "i", "g", "k", "e", "i", "t">>
  /\ request.weaknesses = <<"P", "e", "r", "f", "e", "k", "t", "i", "o", "n", "i", "s", "m", "u", "s">>
  /\ response.status = 400 /\ calls.gen = <<>>

\* C5: in POST /generate_cover_letter with all inputs valid, a letter returned by
\* the generation service gives 200 with cover_letter the trimmed letter, and a
\* failed generation gives 500, whatever words the texts and the letter contain.
C5_ValidGives200 ==
  req_pc = "answered" /\ entry = "api" /\ ~InputCheckFails(request) /\ Len(calls.gen) = 1 =>
    LET reply == calls.gen[1]
    IN  IF ~reply.raises /\ reply.content # None
          THEN /\ response.status = 200
               /\ response.body.cover_letter = Trimmed(reply.content, 1, Len(reply.content))
          ELSE response.status = 500

\* C6: in both entry points an uploaded file whose text is empty or whitespace
\* only counts as a failed extraction: no keyword extraction, no generation call
\* and no document export happens for that request.
C6_NoEmptySuccess ==
  /\ req_pc = "answered"
  /\ \E f \in {request.cv_file, request.job_file} :
       f.uploaded /\ ~f.extraction.raises /\ Blank(f.extraction.text)
  => calls.kw = <<>> /\ calls.gen = <<>> /\ calls.export = <<>>

---------------------------------------------------------------------------
(* Properties of concurrent exports, under SpecDocx.                       *)

\* the places in the log of the steps of request r
StepsOf(r) == {i \in DOMAIN log : log[i][1] = r}

\* request q has finished (sent its file or its refusal) at place i of the log
FinishedBy(q, i) ==
  \E j \in StepsOf(q) : j < i /\ log[j][2] \in {"send", "reject"}

\* a finished request r ran with no other request at the same time: every other
\* request had finished before r's first step, or took its first step after
\* r's last one
RanAlone(r) ==
  \A q \in DocxRequests \ {r} :
    \A i \in StepsOf(q) :
      \/ \A k \in StepsOf(r) : k < i
      \/ \A k \in StepsOf(r) : i < k /\ FinishedBy(q, k)

\* the document that holds the letter of request r
OwnDocument(r) == Complete(save_cover_letter(cover_letter[r]))

\* C9: requests to /generate_docx race on the one export file: a request that
\* runs at the same time as another one can download the other request's letter
\* (C9_Witness is such a run); a request that runs with no other request at the
\* same time downloads the document of its own letter.
C9_OwnLetterUnlessConcurrent ==
  \A r \in DocxRequests :
    pc[r] = "done" /\ download[r].status = 200 =>
      download[r].content = OwnDocument(r) \/ ~RanAlone(r)

\* C9's case: a request has downloaded the document of another request's
\* different letter
C9_Witness ==
  \E r, q \in DocxRequests :
    /\ r # q /\ cover_letter[r] # cover_letter[q]
    /\ pc[r] = "done" /\ download[r].status = 200
    /\ Truthy(cover_letter[q])
    /\ download[r].content = OwnDocument(q)
    /\ ~RanAlone(r)

=============================================================================
